---------------------------- MODULE Spec2Model ----------------------------
(***************************************************************************)
(* Model of src/src/camFusion_Student.cpp: the camera/lidar fusion core.   *)
(*                                                                         *)
(*   clusterLidarWithROI       Region-Point Associator                     *)
(*   clusterKptMatchesWithROI  Region-Keypoint Associator                  *)
(*   computeTTCCamera          Image TTC Estimator                         *)
(*   computeTTCLidar           Range TTC Estimator                         *)
(*   matchBoundingBoxes        Cross-Frame Region Matcher                  *)
(*                                                                         *)
(* Every function is a separate entry point; each has its own              *)
(* specification (SpecROI, SpecKpt, SpecCam, SpecLidar, SpecMatch) whose   *)
(* initial states draw the arguments from bounded sets and whose actions   *)
(* are the loop iterations / the body of the function.                     *)
(***************************************************************************)
EXTENDS Integers, Sequences, FiniteSets, TLC

VARIABLES
    \* clusterLidarWithROI
    boundingBoxes,   \* std::vector<BoundingBox> &boundingBoxes (boxID, roi, lidarPoints)
    lidarPoints,     \* std::vector<LidarPoint> &lidarPoints
    shrinkFactor,    \* float shrinkFactor, as a fraction <<num, den>>
    calib,           \* the three calibration matrices P_rect_xx, R_rect_xx, RT
    roi_it1,         \* position of the iterator it1 (1-based); Len+1 = end()
    roiPixels,       \* history: the pixel pt computed for each point handled so far
    \* clusterKptMatchesWithROI
    boundingBox,     \* BoundingBox &boundingBox (roi, kptMatches, keypoints)
    kptsPrev,        \* std::vector<cv::KeyPoint> &kptsPrev
    kptsCurr,        \* std::vector<cv::KeyPoint> &kptsCurr
    kptMatches,      \* std::vector<cv::DMatch> &kptMatches
    kpt_it1,         \* position of the iterator it1 (1-based); Len+1 = end()
    kptPc,           \* "loop", "returned", "threw" (std::out_of_range), "crashed"
    kptTested,       \* history: the positions of kptMatches the loop has tested
    \* computeTTCLidar
    lidarPointsPrev, \* std::vector<LidarPoint> &lidarPointsPrev
    lidarPointsCurr, \* std::vector<LidarPoint> &lidarPointsCurr
    lidarFrameRate,  \* double frameRate
    lidarTTC,        \* double &TTC: Unset or the fraction [num, den]
    lidarPc,         \* "start", "returned", "crashed"
    lidarOob,        \* history: the vectors subscripted outside their bounds
    \* computeTTCCamera
    camKptsPrev,     \* std::vector<cv::KeyPoint> &kptsPrev
    camKptsCurr,     \* std::vector<cv::KeyPoint> &kptsCurr
    camMatches,      \* std::vector<cv::DMatch> kptMatches
    camFrameRate,    \* double frameRate
    distRatios,      \* vector<double> distRatios, each an exact fraction
    cam_it1,         \* position of the outer iterator it1 (1-based)
    camPc,           \* "loop", "returned", "threw" (std::out_of_range), "crashed"
    medianDistRatio, \* double medianDistRatio: Unset or a fraction
    camTTC,          \* double &TTC: Unset or a fraction (den = 0: non-finite)
    camOob,          \* history: an iterator was dereferenced outside kptMatches
    medianReads,     \* history: the indices of distRatios the median step read
    \* matchBoundingBoxes
    matches,         \* std::vector<cv::DMatch> &matches
    bbBestMatches,   \* map<int, int> &bbBestMatches, a function on its keys
    prevFrame,       \* DataFrame &prevFrame (keypoints, boundingBoxes)
    currFrame,       \* DataFrame &currFrame (keypoints, boundingBoxes)
    match_i,         \* the loop variable i (0-based)
    matchPc,         \* "entry", "loop", "returned", "crashed"
    matchOob,        \* history: the vectors subscripted outside their bounds
    bbPassedIn       \* history: bbBestMatches as the caller passed it

roiVars == <<boundingBoxes, lidarPoints, shrinkFactor, calib, roi_it1, roiPixels>>
kptVars == <<boundingBox, kptsPrev, kptsCurr, kptMatches, kpt_it1, kptPc, kptTested>>
lidarVars == <<lidarPointsPrev, lidarPointsCurr, lidarFrameRate, lidarTTC, lidarPc, lidarOob>>
camVars == <<camKptsPrev, camKptsCurr, camMatches, camFrameRate, distRatios, cam_it1,
             camPc, medianDistRatio, camTTC, camOob, medianReads>>
matchVars == <<matches, bbBestMatches, prevFrame, currFrame, match_i, matchPc, matchOob,
               bbPassedIn>>

vars == <<roiVars, kptVars, lidarVars, camVars, matchVars>>

(***************************************************************************)
(* Arithmetic helpers                                                      *)
(***************************************************************************)
Abs(a) == IF a < 0 THEN -a ELSE a

\* C++ conversion of the real a/b to int: truncation toward zero (b # 0).
TruncDiv(a, b) ==
    IF (a >= 0) = (b > 0) THEN Abs(a) \div Abs(b) ELSE -(Abs(a) \div Abs(b))

\* Number of positions of seq holding v.
Count(seq, v) == Cardinality({ i \in DOMAIN seq : seq[i] = v })

\* std::sort on doubles: ascending insertion sort.
RECURSIVE InsertSorted(_, _)
InsertSorted(s, v) ==
    IF s = <<>> THEN <<v>>
    ELSE IF v <= Head(s) THEN <<v>> \o s
    ELSE <<Head(s)>> \o InsertSorted(Tail(s), v)

RECURSIVE Sort(_)
Sort(s) == IF s = <<>> THEN <<>> ELSE InsertSorted(Sort(Tail(s)), Head(s))

\* A double that has not been assigned.
Unset == [unset |-> TRUE]

\* A double as an exact fraction; den = 0 is a non-finite value (inf, NaN).
Frac(n, d) == [num |-> n, den |-> d]
Finite(f) == f.den # 0
FracEq(f, g) == Finite(f) /\ Finite(g) /\ f.num * g.den = g.num * f.den
FracPositive(f) == Finite(f) /\ f.num * f.den > 0

RECURSIVE GCD(_, _)
GCD(a, b) == IF b = 0 THEN a ELSE GCD(b, a % b)

\* The fraction n/d (n >= 0, d > 0) in lowest terms: the same double.
Reduced(n, d) == Frac(n \div GCD(n, d), d \div GCD(n, d))

FracLeq(f, g) == f.num * g.den <= g.num * f.den     \* both den > 0

\* std::sort on doubles held as fractions.
RECURSIVE InsertSortedFrac(_, _)
InsertSortedFrac(s, v) ==
    IF s = <<>> THEN <<v>>
    ELSE IF FracLeq(v, Head(s)) THEN <<v>> \o s
    ELSE <<Head(s)>> \o InsertSortedFrac(Tail(s), v)

RECURSIVE SortFrac(_)
SortFrac(s) == IF s = <<>> THEN <<>> ELSE InsertSortedFrac(SortFrac(Tail(s)), Head(s))

\* All sequences over S of length 0..n.
SeqsUpTo(S, n) == UNION { [1..k -> S] : k \in 0..n }

(***************************************************************************)
(* cv::Rect and cv::Rect::contains                                         *)
(***************************************************************************)
Rect(x, y, w, h) == [x |-> x, y |-> y, width |-> w, height |-> h]

Contains(r, pt) ==
    /\ r.x <= pt.x /\ pt.x < r.x + r.width
    /\ r.y <= pt.y /\ pt.y < r.y + r.height

(***************************************************************************)
(* The state of a function that is not the one being called.               *)
(***************************************************************************)
IdleROI ==
    /\ boundingBoxes = <<>> /\ lidarPoints = <<>> /\ shrinkFactor = <<0, 1>>
    /\ calib = <<>> /\ roi_it1 = 1 /\ roiPixels = <<>>

IdleKpt ==
    /\ boundingBox = <<>> /\ kptsPrev = <<>> /\ kptsCurr = <<>> /\ kptMatches = <<>>
    /\ kpt_it1 = 1 /\ kptPc = "idle" /\ kptTested = <<>>

IdleLidar ==
    /\ lidarPointsPrev = <<>> /\ lidarPointsCurr = <<>> /\ lidarFrameRate = 0
    /\ lidarTTC = Unset /\ lidarPc = "idle" /\ lidarOob = {}

IdleCam ==
    /\ camKptsPrev = <<>> /\ camKptsCurr = <<>> /\ camMatches = <<>>
    /\ camFrameRate = 0 /\ distRatios = <<>> /\ cam_it1 = 1 /\ camPc = "idle"
    /\ medianDistRatio = Unset /\ camTTC = Unset /\ camOob = FALSE
    /\ medianReads = {}

IdleMatch ==
    /\ matches = <<>> /\ bbBestMatches = <<>> /\ prevFrame = <<>> /\ currFrame = <<>>
    /\ match_i = 0 /\ matchPc = "idle" /\ matchOob = {} /\ bbPassedIn = <<>>

(***************************************************************************)
(* clusterLidarWithROI (lines 15-61)                                       *)
(***************************************************************************)
MaxBoxes == 2
MaxLidar == 2

\* Row-major matrices as sequences of rows.
MatMul(A, B) ==
    [i \in 1..Len(A) |->
        [j \in 1..Len(B[1]) |->
            LET RECURSIVE dot(_)
                dot(k) == IF k = 0 THEN 0 ELSE A[i][k] * B[k][j] + dot(k - 1)
            IN dot(Len(B))]]

\* X: the homogeneous 4x1 column of a lidar point (lines 24-27).
Homogeneous(p) == << <<p.x>>, <<p.y>>, <<p.z>>, <<1>> >>

\* The value an int receives from a non-finite double (division by a zero
\* depth): the conversion is undefined, any of these may result.
GarbagePixels == {-2147483647 - 1, 0, 8}

\* Lines 30-33.  Y is 3x1; Y.at<double>(0, 2) addresses the third double of
\* the continuous 3x1 buffer, i.e. Y(2,0), in a build without CV_DbgAssert.
\* The result is the set of pixel positions the int conversion can give.
Project(c, p) ==
    LET Y == MatMul(MatMul(MatMul(c.P_rect_xx, c.R_rect_xx), c.RT), Homogeneous(p))
        depth == Y[3][1]
    IN IF depth # 0
       THEN { [x |-> TruncDiv(Y[1][1], depth), y |-> TruncDiv(Y[2][1], depth)] }
       ELSE { [x |-> gx, y |-> gy] : gx \in GarbagePixels, gy \in GarbagePixels }

\* Lines 39-43: smallerBox, for shrinkFactor = s[1]/s[2].
SmallerBox(roi, s) ==
    Rect(TruncDiv(roi.x * 2 * s[2] + s[1] * roi.width, 2 * s[2]),
         TruncDiv(roi.y * 2 * s[2] + s[1] * roi.height, 2 * s[2]),
         TruncDiv(roi.width * (s[2] - s[1]), s[2]),
         TruncDiv(roi.height * (s[2] - s[1]), s[2]))

\* Lines 35-51: enclosingBoxes, as the ascending list of box positions.
EnclosingBoxes(boxes, s, pt) ==
    SelectSeq([k \in 1..Len(boxes) |-> k],
              LAMBDA k : Contains(SmallerBox(boxes[k].roi, s), pt))

EnclosedBySome(enclosing) == Len(enclosing) >= 1

\* Line 54: the test deciding whether the point is added.
EnclosedByOne(enclosing) == Len(enclosing) = 1

\* Lines 54-58: the boxes after the point p (projected to pt) was handled.
AddLidarPoint(boxes, s, p, pt) ==
    LET enclosing == EnclosingBoxes(boxes, s, pt)
    IN IF EnclosedByOne(enclosing)
       THEN [boxes EXCEPT ![enclosing[1]].lidarPoints = Append(@, p)]
       ELSE boxes

\* --- bounded inputs -----------------------------------------------------
LidarPoint(x, y, z) == [x |-> x, y |-> y, z |-> z]

LidarInputs ==
    { LidarPoint(2, 0, 0),    \* pixel (8, 4)
      LidarPoint(2, 2, 0),    \* pixel (4, 4)
      LidarPoint(3, 1, 0),    \* pixel (6, 4)  (20/3 truncated)
      LidarPoint(2, -6, 0),   \* pixel (20, 4)
      LidarPoint(-1, 1, 0),   \* behind the sensor: pixel (12, 4)
      LidarPoint(0, 1, 0) }   \* zero depth

RoiInputs == { Rect(0, 0, 12, 8), Rect(4, 0, 12, 8), Rect(18, 2, 4, 4) }

ShrinkInputs == { <<0, 1>>, <<1, 4>>, <<1, 2>> }

Identity4 == << <<1,0,0,0>>, <<0,1,0,0>>, <<0,0,1,0>>, <<0,0,0,1>> >>

CalibInputs ==
    { [P_rect_xx |-> << <<4,0,8,0>>, <<0,4,4,0>>, <<0,0,1,0>> >>,
       R_rect_xx |-> Identity4,
       RT        |-> << <<0,-1,0,0>>, <<0,0,-1,0>>, <<1,0,0,0>>, <<0,0,0,1>> >>] }

NewBox(id, roi) == [boxID |-> id, roi |-> roi, lidarPoints |-> <<>>]

InitROI ==
    /\ \E rois \in SeqsUpTo(RoiInputs, MaxBoxes) :
          boundingBoxes = [k \in 1..Len(rois) |-> NewBox(k - 1, rois[k])]
    /\ lidarPoints \in SeqsUpTo(LidarInputs, MaxLidar)
    /\ shrinkFactor \in ShrinkInputs
    /\ calib \in CalibInputs
    /\ roi_it1 = 1
    /\ roiPixels = <<>>
    /\ IdleKpt /\ IdleLidar /\ IdleCam /\ IdleMatch

\* One iteration of the loop over all Lidar points (lines 21-60).
ClusterLidarStep ==
    /\ roi_it1 <= Len(lidarPoints)
    /\ \E pt \in Project(calib, lidarPoints[roi_it1]) :
          /\ boundingBoxes' =
                 AddLidarPoint(boundingBoxes, shrinkFactor, lidarPoints[roi_it1], pt)
          /\ roiPixels' = Append(roiPixels, pt)
    /\ roi_it1' = roi_it1 + 1
    /\ UNCHANGED <<lidarPoints, shrinkFactor, calib, kptVars, lidarVars, camVars, matchVars>>

NextROI == ClusterLidarStep

SpecROI == InitROI /\ [][NextROI]_vars

\* The boxes whose shrunk rectangle holds the pixel pt.
ShrunkHolders(pt) ==
    { k \in DOMAIN boundingBoxes :
        Contains(SmallerBox(boundingBoxes[k].roi, shrinkFactor), pt) }

\* The handled positions of the input whose point is p and whose pixel lies
\* in the shrunk rectangle of box k and of no other box.
OwnedBy(k, p) ==
    { i \in 1..(roi_it1 - 1) :
        lidarPoints[i] = p /\ ShrunkHolders(roiPixels[i]) = {k} }

RECURSIVE TotalCount(_, _)
TotalCount(k, p) ==
    IF k = 0 THEN 0
    ELSE Count(boundingBoxes[k].lidarPoints, p) + TotalCount(k - 1, p)

\* C1: every handled input point is in the collection of exactly the one
\* Region whose shrunk rectangle alone holds its projection, and in no
\* collection when zero or several shrunk rectangles hold it; so the
\* collections hold input points only and no input point is appended twice.
C1_AtMostOneRegion ==
    \A p \in LidarInputs :
        /\ \A k \in DOMAIN boundingBoxes :
              Count(boundingBoxes[k].lidarPoints, p) = Cardinality(OwnedBy(k, p))
        /\ TotalCount(Len(boundingBoxes), p) <= Count(lidarPoints, p)
        /\ \A k \in DOMAIN boundingBoxes :
              \A i \in DOMAIN boundingBoxes[k].lidarPoints :
                  \E j \in DOMAIN lidarPoints :
                      lidarPoints[j] = boundingBoxes[k].lidarPoints[i]

\* Witness of C1: the call has ended, one point lay in two overlapping
\* shrunk rectangles and was dropped, another lay in one and was appended.
C1_Witness ==
    /\ roi_it1 = Len(lidarPoints) + 1
    /\ \E i \in DOMAIN roiPixels : Cardinality(ShrunkHolders(roiPixels[i])) >= 2
    /\ \E i \in DOMAIN roiPixels :
          /\ Cardinality(ShrunkHolders(roiPixels[i])) = 1
          /\ \E k \in DOMAIN boundingBoxes :
                Count(boundingBoxes[k].lidarPoints, lidarPoints[i]) >= 1
    /\ \E k \in DOMAIN boundingBoxes : boundingBoxes[k].lidarPoints = <<>>

(***************************************************************************)
(* clusterKptMatchesWithROI (lines 134-150)                                *)
(*                                                                         *)
(* Keypoint locations are on the integer pixel grid, where the conversion  *)
(* of cv::Point2f to the cv::Point that cv::Rect::contains takes is exact. *)
(* DMatch indices are 0-based as in the source; sequences are 1-based.     *)
(***************************************************************************)
MaxKptMatches == 3
MaxOverrun == 2

KeyPoint(x, y) == [pt |-> [x |-> x, y |-> y]]
DMatch(q, t) == [queryIdx |-> q, trainIdx |-> t]

\* std::vector::at: the index is in range (otherwise std::out_of_range).
AtInRange(v, idx) == 0 <= idx /\ idx < Len(v)
At(v, idx) == v[idx + 1]

KptInsidePrev(box, kpOuterCurr, kpOuterPrev) == Contains(box.roi, kpOuterPrev.pt)

\* Line 142: the containment test of the loop body.
KptInside(box, kpOuterCurr, kpOuterPrev) == Contains(box.roi, kpOuterCurr.pt)

\* Lines 138-146: the box after the match m was handled (both at() in range).
AddKptMatch(box, prev, curr, m) ==
    LET kpOuterCurr == At(curr, m.trainIdx)
        kpOuterPrev == At(prev, m.queryIdx)
    IN IF KptInside(box, kpOuterCurr, kpOuterPrev)
       THEN [box EXCEPT !.kptMatches = Append(@, m),
                        !.keypoints = Append(@, kpOuterCurr)]
       ELSE box

\* What a read through an iterator outside [begin(), end()) can deliver:
\* stale or foreign memory interpreted as a DMatch.
GarbageMatches == { DMatch(0, 0), DMatch(1, 2), DMatch(-1, 7) }

\* --- bounded inputs -----------------------------------------------------
KptRoiInputs == { Rect(0, 0, 10, 10), Rect(5, 5, 10, 10) }

KptsCurrInputs ==
    { << KeyPoint(2, 2), KeyPoint(7, 7), KeyPoint(20, 20) >>,
      << KeyPoint(12, 12), KeyPoint(10, 0), KeyPoint(9, 9) >> }

KptsPrevInputs ==
    { << KeyPoint(2, 2), KeyPoint(30, 30) >>,
      << KeyPoint(40, 1), KeyPoint(6, 6), KeyPoint(3, 3) >> }

KptMatchInputs == { DMatch(q, t) : q \in 0..2, t \in 0..2 }

InitKpt ==
    /\ \E roi \in KptRoiInputs :
          boundingBox = [roi |-> roi, kptMatches |-> <<>>, keypoints |-> <<>>]
    /\ kptsPrev \in KptsPrevInputs
    /\ kptsCurr \in KptsCurrInputs
    /\ kptMatches \in SeqsUpTo(KptMatchInputs, MaxKptMatches)
    /\ kpt_it1 = 2                 \* it1 = kptMatches.begin() + 1 (line 136)
    /\ kptPc = "loop"
    /\ kptTested = <<>>
    /\ IdleROI /\ IdleLidar /\ IdleCam /\ IdleMatch

\* The loop body for a match m read through it1 (lines 138-146, ++it1).
KptBody(m) ==
    IF AtInRange(kptsCurr, m.trainIdx) /\ AtInRange(kptsPrev, m.queryIdx)
    THEN /\ boundingBox' = AddKptMatch(boundingBox, kptsPrev, kptsCurr, m)
         /\ kpt_it1' = kpt_it1 + 1
         /\ kptPc' = "loop"
    ELSE /\ kptPc' = "threw"
         /\ UNCHANGED <<boundingBox, kpt_it1>>

\* One iteration with it1 inside the sequence.
KptLoopStep ==
    /\ kptPc = "loop"
    /\ kpt_it1 <= Len(kptMatches)
    /\ KptBody(kptMatches[kpt_it1])
    /\ kptTested' = Append(kptTested, kpt_it1)
    /\ UNCHANGED <<kptsPrev, kptsCurr, kptMatches, roiVars, lidarVars, camVars, matchVars>>

\* it1 == kptMatches.end(): the loop and the function end.
KptReturn ==
    /\ kptPc = "loop"
    /\ kpt_it1 = Len(kptMatches) + 1
    /\ kptPc' = "returned"
    /\ UNCHANGED <<boundingBox, kptsPrev, kptsCurr, kptMatches, kpt_it1, kptTested, roiVars, lidarVars, camVars, matchVars>>

\* it1 is past end() (begin() + 1 of an empty sequence): it never compares
\* equal to end(); every dereference is undefined.  It delivers garbage or
\* faults; the run of garbage reads is cut at MaxOverrun by a fault.
KptOverrun ==
    /\ kptPc = "loop"
    /\ kpt_it1 > Len(kptMatches) + 1
    /\ \/ /\ kpt_it1 - (Len(kptMatches) + 1) <= MaxOverrun
          /\ \E m \in GarbageMatches : KptBody(m)
       \/ /\ kptPc' = "crashed"
          /\ UNCHANGED <<boundingBox, kpt_it1>>
    /\ UNCHANGED <<kptsPrev, kptsCurr, kptMatches, kptTested, roiVars, lidarVars, camVars, matchVars>>

NextKpt == KptLoopStep \/ KptReturn \/ KptOverrun

SpecKpt == InitKpt /\ [][NextKpt]_vars

\* The current-frame keypoint of the match m lies in the Region's rectangle.
CurrInRoi(m) ==
    /\ AtInRange(kptsCurr, m.trainIdx)
    /\ Contains(boundingBox.roi, At(kptsCurr, m.trainIdx).pt)

\* C7: every correspondence, the first included, is tested exactly once, and
\* the number of appended correspondences is the number of input
\* correspondences whose current-frame keypoint is inside the rectangle.
C7_EveryMatchTested ==
    kptPc = "returned" =>
        /\ kptTested = [i \in 1..Len(kptMatches) |-> i]
        /\ Len(boundingBox.kptMatches) =
              Cardinality({ i \in DOMAIN kptMatches : CurrInRoi(kptMatches[i]) })

\* C8: after a call that returns, the Region holds at most as many
\* correspondences as the input; each one is an input correspondence whose
\* current-frame keypoint is inside the rectangle; a tested correspondence
\* is a member exactly when its current-frame keypoint is inside, wherever
\* its previous-frame keypoint is; the two collections are aligned.
C8_MembersInsideRoi ==
    kptPc = "returned" =>
        /\ Len(boundingBox.kptMatches) <= Len(kptMatches)
        /\ Len(boundingBox.keypoints) = Len(boundingBox.kptMatches)
        /\ \A i \in DOMAIN boundingBox.kptMatches :
              /\ CurrInRoi(boundingBox.kptMatches[i])
              /\ boundingBox.keypoints[i] =
                    At(kptsCurr, boundingBox.kptMatches[i].trainIdx)
              /\ \E j \in DOMAIN kptMatches : kptMatches[j] = boundingBox.kptMatches[i]
        /\ \A m \in KptMatchInputs :
              Count(boundingBox.kptMatches, m) =
                  Cardinality({ i \in DOMAIN kptTested :
                                  kptMatches[kptTested[i]] = m /\ CurrInRoi(m) })

\* Witness of C8: a returned call that appended a correspondence whose
\* previous-frame keypoint is outside the rectangle and rejected a tested one
\* whose previous-frame keypoint is inside it.
C8_Witness ==
    /\ kptPc = "returned"
    /\ \E i \in DOMAIN boundingBox.kptMatches :
          ~Contains(boundingBox.roi, At(kptsPrev, boundingBox.kptMatches[i].queryIdx).pt)
    /\ \E i \in DOMAIN kptTested :
          /\ ~CurrInRoi(kptMatches[kptTested[i]])
          /\ Contains(boundingBox.roi, At(kptsPrev, kptMatches[kptTested[i]].queryIdx).pt)

(***************************************************************************)
(* computeTTCLidar (lines 217-255)                                         *)
(*                                                                         *)
(* Distance_array (lines 222, 235, 239) is filled and sorted but never     *)
(* read; it is left out of the state.                                      *)
(***************************************************************************)
\* The index of lines 250-251.
RankIndex == 5

\* Lines 225-227, 240: one x per current point, then sorted.
XValCurr(curr) == Sort([i \in DOMAIN curr |-> curr[i].x])

RECURSIVE Repeat(_, _)
Repeat(s, n) == IF n = 0 THEN <<>> ELSE s \o Repeat(s, n - 1)

\* Lines 231-234, 241: push_back of every previous x inside the loop over the
\* current points, i.e. once per current point, then sorted.
XValPrev(prev, curr) == Sort(Repeat([i \in DOMAIN prev |-> prev[i].x], Len(curr)))

\* What operator[] outside the bounds can deliver when it does not fault.
GarbageX == { 0, 9, 50 }

\* std::vector::operator[] (unchecked): the values a read of v[idx] can give.
Subscript(v, idx) == IF AtInRange(v, idx) THEN { At(v, idx) } ELSE GarbageX

\* Lines 250-251.
LidarTTCValue(xPrev, xCurr, frameRate) ==
    LET median_velocity == xPrev - xCurr
    IN Frac(xCurr, median_velocity * frameRate)

\* --- bounded inputs -----------------------------------------------------
XInputs == 6..12

\* The points of a set of forward coordinates, in a fixed unsorted order.
RECURSIVE Scrambled(_)
Scrambled(S) ==
    IF S = {} THEN <<>>
    ELSE LET x == CHOOSE v \in S : \A w \in S : (v * 3) % 7 <= (w * 3) % 7
         IN <<LidarPoint(x, 0, 0)>> \o Scrambled(S \ {x})

LidarFrames == { Scrambled(S) : S \in SUBSET XInputs }

FrameRateInputs == { 10, 20 }

InitLidar ==
    /\ lidarPointsPrev \in LidarFrames
    /\ lidarPointsCurr \in LidarFrames
    /\ lidarFrameRate \in FrameRateInputs
    /\ lidarTTC = Unset
    /\ lidarPc = "start"
    /\ lidarOob = {}
    /\ IdleROI /\ IdleKpt /\ IdleCam /\ IdleMatch

\* The whole function; both subscripts are unchecked (lines 250-251).
ComputeTTCLidar ==
    /\ lidarPc = "start"
    /\ LET X_val_curr == XValCurr(lidarPointsCurr)
           X_val_prev == XValPrev(lidarPointsPrev, lidarPointsCurr)
           oob == { n \in {"X_val_prev", "X_val_curr"} :
                      \/ n = "X_val_prev" /\ ~AtInRange(X_val_prev, RankIndex)
                      \/ n = "X_val_curr" /\ ~AtInRange(X_val_curr, RankIndex) }
       IN /\ lidarOob' = oob
          /\ \/ /\ \E xp \in Subscript(X_val_prev, RankIndex) :
                   \E xc \in Subscript(X_val_curr, RankIndex) :
                      lidarTTC' = LidarTTCValue(xp, xc, lidarFrameRate)
                /\ lidarPc' = "returned"
             \/ /\ oob # {}              \* the read faults
                /\ lidarPc' = "crashed"
                /\ UNCHANGED lidarTTC
    /\ UNCHANGED <<lidarPointsPrev, lidarPointsCurr, lidarFrameRate, roiVars, kptVars, camVars, matchVars>>

NextLidar == ComputeTTCLidar

SpecLidar == InitLidar /\ [][NextLidar]_vars

\* The r-th smallest forward coordinate of a collection (r counted from 0).
OrderStatistic(points, r) == At(Sort([i \in DOMAIN points |-> points[i].x]), r)

HasRank(points) == Len(points) > RankIndex

\* C4: when a collection has fewer points than the rank index requires, the
\* estimator reports an undefined (non-finite) TTC and subscripts no sorted
\* sequence outside its bounds.
C4_ShortCollectionFails ==
    (lidarPc \in {"returned", "crashed"}
        /\ (~HasRank(lidarPointsPrev) \/ ~HasRank(lidarPointsCurr)))
    => /\ lidarOob = {}
       /\ lidarPc = "returned"
       /\ ~Finite(lidarTTC)

ExamplePrev == Scrambled(8..12)
ExampleCurr == Scrambled(6..10)

\* C5: both representative distances are the order statistic at the same
\* rank of the frame's own sorted coordinates, and TTC is
\* dCurr / ((dPrev - dCurr) * frameRate); for previous {8,...,12} and
\* current {6,...,10} at 10 Hz the result is finite, positive and dCurr / 20.
C5_SameRankBothFrames ==
    lidarPc \in {"returned", "crashed"} =>
       /\ (HasRank(lidarPointsPrev) /\ HasRank(lidarPointsCurr)) =>
             /\ lidarPc = "returned"
             /\ LET dPrev == OrderStatistic(lidarPointsPrev, RankIndex)
                    dCurr == OrderStatistic(lidarPointsCurr, RankIndex)
                IN \/ FracEq(lidarTTC, Frac(dCurr, (dPrev - dCurr) * lidarFrameRate))
                   \/ dPrev = dCurr /\ ~Finite(lidarTTC)
       /\ (lidarPointsPrev = ExamplePrev /\ lidarPointsCurr = ExampleCurr
              /\ lidarFrameRate = 10) =>
             /\ lidarPc = "returned"
             /\ FracPositive(lidarTTC)
             /\ \E r \in 0..4 :
                   FracEq(lidarTTC, Frac(OrderStatistic(lidarPointsCurr, r), 20))

(***************************************************************************)
(* computeTTCCamera (lines 154-214)                                        *)
(*                                                                         *)
(* The keypoints of a frame are drawn from scenes whose pairwise distances *)
(* are integers, so cv::norm and the ratios are exact.                     *)
(***************************************************************************)
MaxCamMatches == 4
MaxDist == 700

\* Line 170.
MinDist == 100

\* cv::norm of the difference of two points (lines 177-178).
Norm(a, b) ==
    LET dx == a.x - b.x
        dy == a.y - b.y
    IN CHOOSE n \in 0..MaxDist : n * n = dx * dx + dy * dy

\* Line 180: the ratio of the pair is kept.  distPrev exceeds epsilon exactly
\* when it is not zero, distances being integers.
RatioRetained(distCurr, distPrev) == distPrev > 0 /\ distCurr >= MinDist

\* Lines 173-185: the ratios the inner-loop iteration for match inner adds.
PairRatios(prev, curr, outer, inner) ==
    LET distCurr == Norm(At(curr, outer.trainIdx).pt, At(curr, inner.trainIdx).pt)
        distPrev == Norm(At(prev, outer.queryIdx).pt, At(prev, inner.queryIdx).pt)
    IN IF RatioRetained(distCurr, distPrev) THEN <<Reduced(distCurr, distPrev)>> ELSE <<>>

\* Both at() calls for the match are in range (lines 164-165, 173-174).
MatchInRange(prev, curr, m) ==
    AtInRange(curr, m.trainIdx) /\ AtInRange(prev, m.queryIdx)

\* Lines 167-186: the inner loop, it2 from begin() + 1 (position 2) to end().
RECURSIVE InnerLoop(_, _, _, _, _)
InnerLoop(prev, curr, ms, outer, it2) ==
    IF it2 > Len(ms) THEN <<>>
    ELSE PairRatios(prev, curr, outer, ms[it2])
         \o InnerLoop(prev, curr, ms, outer, it2 + 1)

\* Lines 203-210: the indices of the sorted distRatios that are read.
MedianIndices(n) ==
    IF n % 2 = 1 THEN { (n - 1) \div 2 } ELSE { n \div 2 - 1, n \div 2 }

MedianUpper(ratios) == At(SortFrac(ratios), Len(ratios) \div 2)

\* Lines 199-210: sort, then the middle element or the mean of the two
\* central elements.
Median(ratios) ==
    LET sorted == SortFrac(ratios)
        n == Len(ratios)
    IN IF n % 2 = 1
       THEN At(sorted, (n - 1) \div 2)
       ELSE LET a == At(sorted, n \div 2 - 1)
                b == At(sorted, n \div 2)
            IN Reduced(a.num * b.den + b.num * a.den, 2 * a.den * b.den)

CamTTCNoDt(median, frameRate) == Frac(-median.den, median.den - median.num)

\* Lines 212-213: dT = 1 / frameRate; TTC = -dT / (1 - medianDistRatio).
CamTTCValue(median, frameRate) ==
    Frac(-median.den, frameRate * (median.den - median.num))

\* Line 192.
NaN == Frac(0, 0)

\* --- bounded inputs -----------------------------------------------------
Scene(pts) == [i \in DOMAIN pts |-> KeyPoint(pts[i][1], pts[i][2])]

PrevScenes ==
    { Scene(<< <<0, 0>>, <<300, 0>>, <<0, 400>>, <<300, 400>> >>),
      Scene(<< <<0, 0>>, <<30, 0>>, <<0, 40>>, <<30, 40>> >>),
      Scene(<< <<0, 0>>, <<100, 0>>, <<250, 0>>, <<100, 0>> >>) }

CurrScenes ==
    { Scene(<< <<0, 0>>, <<240, 0>>, <<0, 320>>, <<240, 320>> >>),   \* 0.8 x
      Scene(<< <<0, 0>>, <<24, 0>>, <<0, 32>>, <<24, 32>> >>),       \* 0.8 x
      Scene(<< <<0, 0>>, <<150, 0>>, <<375, 0>>, <<150, 0>> >>) }    \* 1.5 x

CamMatchInputs == { DMatch(i, i) : i \in 0..3 } \cup { DMatch(4, 4) }

CamFrameRateInputs == { 10 }

InitCam ==
    /\ camKptsPrev \in PrevScenes
    /\ camKptsCurr \in CurrScenes
    /\ camMatches \in SeqsUpTo(CamMatchInputs, MaxCamMatches)
    /\ camFrameRate \in CamFrameRateInputs
    /\ distRatios = <<>>
    /\ cam_it1 = 1                 \* it1 = kptMatches.begin() (line 160)
    /\ camPc = "loop"
    /\ medianDistRatio = Unset
    /\ camTTC = Unset
    /\ camOob = FALSE
    /\ medianReads = {}
    /\ IdleROI /\ IdleKpt /\ IdleLidar /\ IdleMatch

\* One iteration of the outer loop (lines 160-187), it1 inside the sequence
\* and not yet at end() - 1.
CamOuterStep ==
    /\ camPc = "loop"
    /\ Len(camMatches) >= 1
    /\ cam_it1 < Len(camMatches)
    /\ LET outer == camMatches[cam_it1]
       IN IF /\ MatchInRange(camKptsPrev, camKptsCurr, outer)
             /\ \A it2 \in 2..Len(camMatches) :
                   MatchInRange(camKptsPrev, camKptsCurr, camMatches[it2])
          THEN /\ distRatios' =
                     distRatios \o InnerLoop(camKptsPrev, camKptsCurr, camMatches, outer, 2)
               /\ cam_it1' = cam_it1 + 1
               /\ camPc' = "loop"
          ELSE /\ camPc' = "threw"
               /\ UNCHANGED <<distRatios, cam_it1>>
    /\ UNCHANGED <<camKptsPrev, camKptsCurr, camMatches, camFrameRate, medianDistRatio,
                   camTTC, camOob, medianReads, roiVars, kptVars, lidarVars, matchVars>>

\* it1 == end() - 1 with no ratio collected (lines 190-194).
CamReturnNaN ==
    /\ camPc = "loop"
    /\ Len(camMatches) >= 1
    /\ cam_it1 = Len(camMatches)
    /\ distRatios = <<>>
    /\ camTTC' = NaN
    /\ camPc' = "returned"
    /\ UNCHANGED <<camKptsPrev, camKptsCurr, camMatches, camFrameRate, distRatios, cam_it1,
                   medianDistRatio, camOob, medianReads, roiVars, kptVars, lidarVars, matchVars>>

\* it1 == end() - 1 with ratios: the median and the TTC (lines 199-213).
CamMedianTTC ==
    /\ camPc = "loop"
    /\ Len(camMatches) >= 1
    /\ cam_it1 = Len(camMatches)
    /\ distRatios # <<>>
    /\ medianReads' = MedianIndices(Len(distRatios))
    /\ medianDistRatio' = Median(distRatios)
    /\ camTTC' = CamTTCValue(Median(distRatios), camFrameRate)
    /\ camPc' = "returned"
    /\ UNCHANGED <<camKptsPrev, camKptsCurr, camMatches, camFrameRate, distRatios, cam_it1,
                   camOob, roiVars, kptVars, lidarVars, matchVars>>

\* An empty kptMatches: end() - 1 lies before begin(), it1 = begin() differs
\* from it, and the body dereferences it1 and it2 = begin() + 1 outside the
\* sequence; neither iterator ever meets its bound.  The reads throw from
\* at() on a garbage index, or fault.
CamOverrun ==
    /\ camPc = "loop"
    /\ Len(camMatches) = 0
    /\ camOob' = TRUE
    /\ camPc' \in {"threw", "crashed"}
    /\ UNCHANGED <<camKptsPrev, camKptsCurr, camMatches, camFrameRate, distRatios, cam_it1,
                   medianDistRatio, camTTC, medianReads, roiVars, kptVars, lidarVars, matchVars>>

NextCam == CamOuterStep \/ CamReturnNaN \/ CamMedianTTC \/ CamOverrun

SpecCam == InitCam /\ [][NextCam]_vars

CamTerminal == camPc \in {"returned", "threw", "crashed"}

\* Positions of camMatches whose indices are in range of both frames.
CamValid(i) == MatchInRange(camKptsPrev, camKptsCurr, camMatches[i])
CamCurrPt(i) == At(camKptsCurr, camMatches[i].trainIdx).pt
CamPrevPt(i) == At(camKptsPrev, camMatches[i].queryIdx).pt

\* Some pair of distinct correspondences is separated by at least the
\* minimum distance in the current frame and by more than zero in the
\* previous one.
SomePairFarApart ==
    \E i, j \in DOMAIN camMatches :
        /\ i # j /\ CamValid(i) /\ CamValid(j)
        /\ Norm(CamCurrPt(i), CamCurrPt(j)) >= MinDist
        /\ Norm(CamPrevPt(i), CamPrevPt(j)) > 0

\* Every correspondence's current keypoint is k times its previous keypoint.
UniformScale(k) ==
    \A i \in DOMAIN camMatches :
        /\ CamValid(i)
        /\ CamCurrPt(i).x * k.den = CamPrevPt(i).x * k.num
        /\ CamCurrPt(i).y * k.den = CamPrevPt(i).y * k.num

ScaleInputs == { Frac(4, 5), Frac(3, 2) }

\* TTC * (1 - k) = -dT with dT = 1 / camFrameRate.
TTCOfScale(k) ==
    /\ camTTC # Unset /\ Finite(camTTC)
    /\ camTTC.num * (k.den - k.num) * camFrameRate = -(camTTC.den * k.den)

\* C6 as stated: for correspondences (at least two, at distinct previous
\* keypoints) scaled uniformly by k # 1 the median ratio is k and
\* TTC = -dT / (1 - k); scale 0.8 at 10 Hz gives -0.5.
C6_UniformScaleAlways ==
    \A k \in ScaleInputs :
        (/\ CamTerminal /\ Len(camMatches) >= 2 /\ UniformScale(k)
         /\ \A i, j \in DOMAIN camMatches : i # j => CamPrevPt(i) # CamPrevPt(j))
        => /\ camPc = "returned"
           /\ medianDistRatio # Unset /\ FracEq(medianDistRatio, k)
           /\ TTCOfScale(k)
           /\ (k = Frac(4, 5) /\ camFrameRate = 10) => FracEq(camTTC, Frac(-1, 2))

\* C6 amended: for at least two correspondences scaled uniformly by k # 1,
\* the median ratio is k and TTC = -dT / (1 - k) when some pair of them is at
\* least MinDist apart in the current frame; when no pair is, no ratio is
\* retained and TTC is NaN.
C6_UniformScaleFarApart ==
    \A k \in ScaleInputs :
        (CamTerminal /\ Len(camMatches) >= 2 /\ UniformScale(k))
        => /\ camPc = "returned"
           /\ IF SomePairFarApart
              THEN /\ medianDistRatio # Unset /\ FracEq(medianDistRatio, k)
                   /\ TTCOfScale(k)
                   /\ (k = Frac(4, 5) /\ camFrameRate = 10) =>
                         FracEq(camTTC, Frac(-1, 2))
              ELSE /\ medianDistRatio = Unset
                   /\ camTTC = NaN

\* Witness of C6: the four corners of a rectangle, each matched once, scaled
\* by 0.8 and far apart, at 10 Hz: the call returned TTC = -0.5.
C6_Witness ==
    /\ camPc = "returned"
    /\ Len(camMatches) = 4
    /\ { camMatches[i] : i \in DOMAIN camMatches } = { DMatch(i, i) : i \in 0..3 }
    /\ UniformScale(Frac(4, 5))
    /\ SomePairFarApart
    /\ camFrameRate = 10
    /\ FracEq(camTTC, Frac(-1, 2))

\* C9: whatever the number of correspondences, when no pair yields a
\* retained ratio the estimator ends with a non-finite TTC, takes no median or
\* division step and dereferences nothing outside the correspondences.
C9_NoRatioUndefined ==
    (/\ CamTerminal
     /\ \A i \in DOMAIN camMatches : CamValid(i)
     /\ ~SomePairFarApart)
    => /\ camPc = "returned"
       /\ camTTC # Unset /\ ~Finite(camTTC)
       /\ medianDistRatio = Unset /\ medianReads = {}
       /\ ~camOob

\* The k-th smallest value of a list of fractions (k from 1), by counting.
KthSmallest(ratios, k) ==
    LET v == CHOOSE i \in DOMAIN ratios :
                 /\ Cardinality({ j \in DOMAIN ratios :
                                    ~FracLeq(ratios[i], ratios[j]) }) <= k - 1
                 /\ Cardinality({ j \in DOMAIN ratios :
                                    FracLeq(ratios[j], ratios[i]) }) >= k
    IN ratios[v]

\* 2 * m = a + b.
IsMeanOf(m, a, b) ==
    2 * m.num * a.den * b.den = m.den * (a.num * b.den + b.num * a.den)

\* C10: for a non-empty list of retained ratios the median used is the
\* middle element of the ascending order for an odd length and the mean of
\* the two central elements for an even length; every index read is within
\* the list.
C10_TextbookMedian ==
    (camPc = "returned" /\ distRatios # <<>>) =>
        LET n == Len(distRatios)
        IN /\ medianDistRatio # Unset
           /\ medianDistRatio.den > 0
           /\ IF n % 2 = 1
              THEN FracEq(medianDistRatio, KthSmallest(distRatios, (n + 1) \div 2))
              ELSE IsMeanOf(medianDistRatio, KthSmallest(distRatios, n \div 2),
                            KthSmallest(distRatios, n \div 2 + 1))
           /\ medianReads # {}
           /\ medianReads \subseteq 0..(n - 1)

\* Witness of C10: an even number of retained ratios, not in ascending
\* order, whose two central values differ.
C10_Witness ==
    /\ camPc = "returned"
    /\ Len(distRatios) >= 2
    /\ Len(distRatios) % 2 = 0
    /\ \E i \in 1..(Len(distRatios) - 1) : ~FracLeq(distRatios[i], distRatios[i + 1])
    /\ ~FracEq(KthSmallest(distRatios, Len(distRatios) \div 2),
               KthSmallest(distRatios, Len(distRatios) \div 2 + 1))

(***************************************************************************)
(* matchBoundingBoxes (lines 258-295)                                      *)
(***************************************************************************)
MaxMatches == 7

\* std::map::insert: no effect when the key is present.
MapInsert(m, k, v) == IF k \in DOMAIN m THEN m ELSE m @@ (k :> v)

EmptyMap == [k \in {} |-> 0]

\* Lines 260-263.
InsertDefaults(m) == MapInsert(MapInsert(MapInsert(m, 1, 1), 3, 3), 5, 3)

\* What vector::operator[] outside the bounds can deliver when it does not
\* fault.
GarbageRois == { Rect(0, 0, 0, 0), Rect(0, 0, 100, 100) }
GarbageKeypoints == { KeyPoint(0, 0), KeyPoint(25, 5) }

\* The values a read of v[idx] can give, given those for an index outside.
SubscriptOr(v, idx, garbage) == IF AtInRange(v, idx) THEN { At(v, idx) } ELSE garbage

\* Line 286.
BothContain(roi_prev, roi_curr, pt_previous_frame, pt_current_frame) ==
    Contains(roi_prev, pt_previous_frame.pt) /\ Contains(roi_curr, pt_current_frame.pt)

\* Lines 272-291: the loop over k for one j; the test does not depend on k.
RECURSIVE LoopK(_, _, _, _, _, _, _)
LoopK(m, prevBox, currBoxes, k, roi_curr, ptPrev, ptCurr) ==
    IF k > Len(currBoxes) THEN m
    ELSE LoopK(IF BothContain(prevBox.roi, roi_curr, ptPrev, ptCurr)
               THEN MapInsert(m, prevBox.boxID, currBoxes[k].boxID)
               ELSE m,
               prevBox, currBoxes, k + 1, roi_curr, ptPrev, ptCurr)

\* Lines 269-293: the loop over j.
RECURSIVE LoopJ(_, _, _, _, _, _, _)
LoopJ(m, prevBoxes, currBoxes, j, roi_curr, ptPrev, ptCurr) ==
    IF j > Len(prevBoxes) THEN m
    ELSE LoopJ(LoopK(m, prevBoxes[j], currBoxes, 1, roi_curr, ptPrev, ptCurr),
               prevBoxes, currBoxes, j + 1, roi_curr, ptPrev, ptCurr)

\* --- bounded inputs -----------------------------------------------------
Region(id, roi) == [boxID |-> id, roi |-> roi]

RegionA0 == Region(0, Rect(0, 0, 10, 10))
RegionA1 == Region(1, Rect(0, 0, 10, 10))
RegionB == Region(2, Rect(20, 0, 10, 10))
RegionX == Region(0, Rect(2, 2, 12, 12))
RegionY == Region(1, Rect(20, 2, 12, 12))

PrevFrameInputs ==
    { [keypoints |-> << KeyPoint(5, 5), KeyPoint(25, 5) >>, boundingBoxes |-> boxes] :
        boxes \in { <<RegionA0>>, <<RegionA1, RegionB>>, <<RegionB, RegionA0>> } }

CurrFrameInputs ==
    { [keypoints |-> << KeyPoint(8, 8), KeyPoint(28, 8), KeyPoint(24, 4) >>,
       boundingBoxes |-> boxes] :
        boxes \in { <<RegionX, RegionY>>, <<RegionY, RegionX>> } }

MatchInputs == { DMatch(0, 0), DMatch(0, 1), DMatch(1, 2) }

PassedInMaps == { EmptyMap, (2 :> 0) }

InitMatch ==
    /\ matches \in SeqsUpTo(MatchInputs, MaxMatches)
    /\ bbBestMatches \in PassedInMaps
    /\ bbPassedIn = bbBestMatches
    /\ prevFrame \in PrevFrameInputs
    /\ currFrame \in CurrFrameInputs
    /\ match_i = 0
    /\ matchPc = "entry"
    /\ matchOob = {}
    /\ IdleROI /\ IdleKpt /\ IdleLidar /\ IdleCam

\* Lines 260-263.
MatchEntry ==
    /\ matchPc = "entry"
    /\ bbBestMatches' = InsertDefaults(bbBestMatches)
    /\ matchPc' = "loop"
    /\ UNCHANGED <<matches, prevFrame, currFrame, match_i, matchOob, bbPassedIn,
                   roiVars, kptVars, lidarVars, camVars>>

\* The vectors that iteration i subscripts outside their bounds; the body is
\* reached only when both frames have a bounding box.
OobReads(i) ==
    IF prevFrame.boundingBoxes = <<>> \/ currFrame.boundingBoxes = <<>> THEN {}
    ELSE { n \in {"currFrame.boundingBoxes", "prevFrame.keypoints"} :
             \/ n = "currFrame.boundingBoxes" /\ ~AtInRange(currFrame.boundingBoxes, i)
             \/ n = "prevFrame.keypoints"
                  /\ (\/ ~AtInRange(prevFrame.keypoints, matches[i + 1].queryIdx)
                      \/ ~AtInRange(prevFrame.keypoints, matches[i + 1].trainIdx)) }

\* One iteration of the loop over the matches (lines 266-294).  roi_curr is
\* currFrame.boundingBoxes[i] with i the index of the match (line 275);
\* both keypoints are taken from prevFrame.keypoints (lines 281, 284).
MatchStep ==
    /\ matchPc = "loop"
    /\ match_i < Len(matches)
    /\ matchOob' = matchOob \cup OobReads(match_i)
    /\ \/ /\ \E roi_curr \in SubscriptOr([b \in DOMAIN currFrame.boundingBoxes |->
                                             currFrame.boundingBoxes[b].roi],
                                         match_i, GarbageRois) :
             \E ptPrev \in SubscriptOr(prevFrame.keypoints,
                                       matches[match_i + 1].queryIdx, GarbageKeypoints) :
             \E ptCurr \in SubscriptOr(prevFrame.keypoints,
                                       matches[match_i + 1].trainIdx, GarbageKeypoints) :
                bbBestMatches' = LoopJ(bbBestMatches, prevFrame.boundingBoxes,
                                       currFrame.boundingBoxes, 1, roi_curr, ptPrev, ptCurr)
          /\ match_i' = match_i + 1
          /\ matchPc' = "loop"
       \/ /\ OobReads(match_i) # {}        \* the read faults
          /\ matchPc' = "crashed"
          /\ UNCHANGED <<bbBestMatches, match_i>>
    /\ UNCHANGED <<matches, prevFrame, currFrame, bbPassedIn,
                   roiVars, kptVars, lidarVars, camVars>>

\* i == matches.size(): the function ends.
MatchReturn ==
    /\ matchPc = "loop"
    /\ match_i = Len(matches)
    /\ matchPc' = "returned"
    /\ UNCHANGED <<matches, bbBestMatches, prevFrame, currFrame, match_i, matchOob,
                   bbPassedIn, roiVars, kptVars, lidarVars, camVars>>

NextMatch == MatchEntry \/ MatchStep \/ MatchReturn

SpecMatch == InitMatch /\ [][NextMatch]_vars

PrevBoxes == { prevFrame.boundingBoxes[j] : j \in DOMAIN prevFrame.boundingBoxes }
CurrBoxes == { currFrame.boundingBoxes[k] : k \in DOMAIN currFrame.boundingBoxes }

\* The correspondences voting for (p, c): previous keypoint in the previous
\* Region p, current keypoint in the current Region c.
Voters(p, c) ==
    { i \in DOMAIN matches :
        /\ AtInRange(prevFrame.keypoints, matches[i].queryIdx)
        /\ AtInRange(currFrame.keypoints, matches[i].trainIdx)
        /\ Contains(p.roi, At(prevFrame.keypoints, matches[i].queryIdx).pt)
        /\ Contains(c.roi, At(currFrame.keypoints, matches[i].trainIdx).pt) }

Votes(p, c) == Cardinality(Voters(p, c))

\* The current Region with the most votes for p, the lower identifier on a tie.
BestCurrent(p) ==
    CHOOSE c \in CurrBoxes :
        \A d \in CurrBoxes :
            \/ Votes(p, c) > Votes(p, d)
            \/ Votes(p, c) = Votes(p, d) /\ c.boxID <= d.boxID

\* C2: every previous Region with a vote is mapped to the current Region with
\* the highest vote count, the lower identifier on a tie; so a previous
\* Region with 5 votes for X and 2 for Y is mapped to X.
C2_HighestVoteWins ==
    (matchPc = "returned" /\ bbPassedIn = EmptyMap) =>
        \A p \in PrevBoxes :
            (\E c \in CurrBoxes : Votes(p, c) >= 1) =>
                /\ p.boxID \in DOMAIN bbBestMatches
                /\ bbBestMatches[p.boxID] = BestCurrent(p).boxID

\* C3: the returned mapping has no entry for a previous Region without
\* votes: every key is the identifier of a previous Region with at least one
\* correspondence voting for the current Region it is mapped to.
C3_NoEntryWithoutVotes ==
    (matchPc = "returned" /\ bbPassedIn = EmptyMap) =>
        \A key \in DOMAIN bbBestMatches :
            \E p \in PrevBoxes, c \in CurrBoxes :
                /\ p.boxID = key
                /\ c.boxID = bbBestMatches[key]
                /\ Votes(p, c) >= 1

=============================================================================
